---- MODULE Spec2Model ----
(***************************************************************************)
(* Crossover operators of gago (crossover.go): CrossPoint.Apply,           *)
(* CrossUniformF.Apply and CrossPMX.Apply, modelled statement group by     *)
(* statement group over a heap of genome slices.                           *)
(*                                                                         *)
(* Indices (i, a, b, p of CrossPMX, points) are 0-based as in the Go code; *)
(* a slice x is held as a TLA+ sequence, so x[k] in Go is At(x, k).        *)
(***************************************************************************)
EXTENDS Integers, Sequences, FiniteSets

\* ------------------------------------------------------------------ bounds

\* Longest genome of a parent handed to CrossPoint or CrossPMX.
MaxLen == 4

\* Longest genome of a parent handed to CrossUniformF.
MaxLenF == 2

\* Significand width of the scaled-down binary floating-point format that
\* stands for float64 (whose width is 53).
MantBits == 3

\* ------------------------------------------------------------ slice helpers

\* The nil interface value an unfilled genome slot holds.
Nil == -1

\* x[k] of Go for a slice held as a sequence.
At(x, k) == x[k + 1]

\* Go's slice expression x[lo:hi] panics unless 0 <= lo <= hi <= cap(x);
\* genomes are made with cap = len.
SliceOK(x, lo, hi) == 0 <= lo /\ lo <= hi /\ hi <= Len(x)

\* Variant of CopySeg that stops one position early.
CopySegShort(dst, src, lo, hi) ==
  [k \in 1..Len(dst) |-> IF lo < k /\ k < hi THEN src[k] ELSE dst[k]]

\* copy(dst[lo:hi], src[lo:hi]): dst with positions lo..hi-1 taken from src.
CopySeg(dst, src, lo, hi) ==
  [k \in 1..Len(dst) |-> IF lo < k /\ k <= hi THEN src[k] ELSE dst[k]]

\* copy(dst, src): copies min(len(dst), len(src)) elements.
CopyAll(dst, src) ==
  [k \in 1..Len(dst) |-> IF k <= Len(src) THEN src[k] ELSE dst[k]]

\* getIndex(element, array): position of the first equal element, -1 if absent.
getIndex(element, array) ==
  IF \E k \in 1..Len(array) : array[k] = element
  THEN (CHOOSE k \in 1..Len(array) :
          /\ array[k] = element
          /\ \A j \in 1..(k - 1) : array[j] # element) - 1
  ELSE -1

\* The sequences randomInts(k, min, max, rng) can return with their error flag:
\* k pairwise distinct integers of [min, max) in any order, or no integers and
\* an error when k > max - min.
randomInts(k, min, max) ==
  IF k > max - min
  THEN {[ints |-> << >>, err |-> TRUE]}
  ELSE {[ints |-> q, err |-> FALSE] :
          q \in {f \in [1..k -> min..(max - 1)] :
                   \A x, y \in 1..k : x # y => f[x] # f[y]}}

\* Insertion of v into an ascending sequence.
RECURSIVE InsertSorted(_, _)
InsertSorted(v, q) ==
  IF q = << >> THEN <<v>>
  ELSE IF v <= Head(q) THEN <<v>> \o q
  ELSE <<Head(q)>> \o InsertSorted(v, Tail(q))

\* sort.Ints(points): the same integers in ascending order.
RECURSIVE SortInts(_)
SortInts(q) ==
  IF q = << >> THEN << >> ELSE InsertSorted(Head(q), SortInts(Tail(q)))

\* makeIndividual(nbGenes, rng): a genome of nbGenes unfilled slots.
makeIndividual(n) == [k \in 1..n |-> Nil]

\* -------------------------------------------------- floating-point helpers

\* Scale of the format: a float x is held as the integer x * 2^FracBits.
FracBits == 2 * MantBits + 1

RECURSIVE Pow2(_)
Pow2(n) == IF n = 0 THEN 1 ELSE 2 * Pow2(n - 1)

\* The float 1.0.
One == Pow2(FracBits)

\* Number of binary digits of a natural number.
RECURSIVE BitLen(_)
BitLen(x) == IF x = 0 THEN 0 ELSE 1 + BitLen(x \div 2)

Max(x, y) == IF x >= y THEN x ELSE y

Min(x, y) == IF x <= y THEN x ELSE y

\* Rounding of the exact value X / 2^S (X >= 0, S >= FracBits) to the nearest
\* float of MantBits significant bits, ties to even; result at scale FracBits.
RoundF(X, S) ==
  LET sh == Max(S - FracBits, BitLen(X) - MantBits)
      q  == Pow2(sh)
      r  == X % q
      lo == X - r
      up == IF 2 * r > q \/ (2 * r = q /\ (X \div q) % 2 = 1) THEN lo + q ELSE lo
  IN  up \div Pow2(S - FracBits)

\* rng.Float64() returns a float of [0, 1); the draws taken here are the
\* multiples of 2^-MantBits of that interval.
Float64Draws == {j * Pow2(FracBits - MantBits) : j \in 0..(Pow2(MantBits) - 1)}

\* The results a build can give for w1*x + w2*y in float arithmetic: both
\* products and the sum rounded, or one product fused with the addition.
Blend(w1, x, w2, y) ==
  { RoundF(RoundF(w1 * x, 2 * FracBits) + RoundF(w2 * y, 2 * FracBits), FracBits),
    RoundF(w1 * x + One * RoundF(w2 * y, 2 * FracBits), 2 * FracBits),
    RoundF(One * RoundF(w1 * x, 2 * FracBits) + w2 * y, 2 * FracBits) }

\* ------------------------------------------------------------------ inputs

\* The permutations of 1..n as genomes.
Perms(n) == {f \in [1..n -> 1..n] : \A x, y \in 1..n : x # y => f[x] # f[y]}

\* The genome 1, 2, ..., n.
Ident(n) == [k \in 1..n |-> k]

\* Gene values of float genomes: 0.875 and 1.0.
GeneF == {One - One \div 8, One}

\* The receivers Apply is called on.
Crossovers ==
  {[type |-> "CrossPoint", NbPoints |-> k] : k \in 0..(MaxLen + 1)}
    \cup {[type |-> "CrossUniformF", NbPoints |-> 0],
          [type |-> "CrossPMX", NbPoints |-> 0]}

\* The pairs of parent genomes each strategy is called with; the two lengths
\* are independent, so that mismatched parents are covered.
ParentGenomes(c) ==
  IF c.type = "CrossPoint"
  THEN UNION {{<<Ident(n1), g2>> : g2 \in Perms(n2)} : n1 \in 0..MaxLen, n2 \in 0..MaxLen}
  ELSE IF c.type = "CrossPMX"
  THEN UNION {Perms(n1) \X Perms(n2) : n1 \in 0..MaxLen, n2 \in 0..MaxLen}
  ELSE UNION {[1..n1 -> GeneF] \X [1..n2 -> GeneF] : n1 \in 0..MaxLenF, n2 \in 0..MaxLenF}

\* ------------------------------------------------------------------- state

VARIABLES
  cross,    \* the receiver: strategy and its NbPoints
  heap,     \* backing arrays of the genome slices, by address
  p1, p2,   \* the parents (Individual: Genome is an address of heap)
  o1, o2,   \* the offspring, Genome = 0 before makeIndividual
  nbGenes,  \* len(p1.Genome)
  points,   \* CrossPoint: boundary markers
  s,        \* CrossPoint: the switch telling which parent to copy
  i,        \* loop index
  p,        \* CrossPMX: crossover point; CrossUniformF: the drawn weight
  a, b,     \* CrossPMX: looked-up indices
  pc        \* "call", "loop", "return" or "panic"

vars == <<cross, heap, p1, p2, o1, o2, nbGenes, points, s, i, p, a, b, pc>>

\* Genome contents of an individual.
Genome(ind) == heap[ind.Genome]

Init ==
  /\ cross \in Crossovers
  /\ \E g \in ParentGenomes(cross) :
       \/ /\ heap = <<g[1], g[2]>>
          /\ p1 = [Genome |-> 1]
          /\ p2 = [Genome |-> 2]
       \/ \* the same individual passed as both parents
          /\ g[1] = g[2]
          /\ heap = <<g[1]>>
          /\ p1 = [Genome |-> 1]
          /\ p2 = [Genome |-> 1]
  /\ o1 = [Genome |-> 0]
  /\ o2 = [Genome |-> 0]
  /\ nbGenes = 0
  /\ points = << >>
  /\ s = TRUE
  /\ i = 0
  /\ p = 0
  /\ a = 0
  /\ b = 0
  /\ pc = "call"

\* Variant of Alloc that makes the offspring one gene longer than the parent.
AllocLonger(h, n) == h \o <<makeIndividual(n + 1), makeIndividual(n + 1)>>

\* "o1 = makeIndividual(nbGenes, rng)" and "o2 = makeIndividual(nbGenes, rng)":
\* the heap with the two new genomes.
Alloc(h, n) == h \o <<makeIndividual(n), makeIndividual(n)>>

\* Variant of Offspring whose genome is the k-th parent's array.
OffspringShared(h, k) == [Genome |-> k]

\* The k-th individual made on heap h: its genome is the k-th new array.
Offspring(h, k) == [Genome |-> Len(h) + k]

\* -------------------------------------------------------------- CrossPoint

\* Lines 24-36: pick the points, allocate the offspring, sort the points and
\* add the two outer markers.  The error of randomInts is discarded.
PointInit ==
  /\ pc = "call"
  /\ cross.type = "CrossPoint"
  /\ \E r \in randomInts(cross.NbPoints, 0, Len(Genome(p1))) :
       points' = <<0>> \o SortInts(r.ints) \o <<Len(Genome(p1))>>
  /\ nbGenes' = Len(Genome(p1))
  /\ heap' = Alloc(heap, Len(Genome(p1)))
  /\ o1' = Offspring(heap, 1)
  /\ o2' = Offspring(heap, 2)
  /\ s' = TRUE
  /\ i' = 0
  /\ pc' = "loop"
  /\ UNCHANGED <<cross, p1, p2, p, a, b>>

\* Line 46, "s = !true".
NextSwitch(sw) == ~TRUE

\* Lines 37-47: one segment.  A slice expression out of range panics; with s
\* set, line 39 has then already copied into o1.
PointSegment ==
  /\ pc = "loop"
  /\ cross.type = "CrossPoint"
  /\ i < Len(points) - 1
  /\ LET lo == At(points, i)
         hi == At(points, i + 1)
         ok1 == SliceOK(Genome(o1), lo, hi) /\ SliceOK(Genome(p1), lo, hi)
         ok2 == SliceOK(Genome(o2), lo, hi) /\ SliceOK(Genome(p2), lo, hi)
         src1 == IF s THEN Genome(p1) ELSE Genome(p2)
         src2 == IF s THEN Genome(p2) ELSE Genome(p1)
         h1 == [heap EXCEPT ![o1.Genome] = CopySeg(@, src1, lo, hi)]
         h2 == [h1 EXCEPT ![o2.Genome] = CopySeg(@, src2, lo, hi)]
     IN  IF ok1 /\ ok2
         THEN /\ heap' = h2
              /\ s' = NextSwitch(s)
              /\ i' = i + 1
              /\ pc' = pc
         ELSE /\ heap' = IF s /\ ok1 THEN h1 ELSE heap
              /\ pc' = "panic"
              /\ UNCHANGED <<s, i>>
  /\ UNCHANGED <<cross, p1, p2, o1, o2, nbGenes, points, p, a, b>>

\* Line 48.
PointReturn ==
  /\ pc = "loop"
  /\ cross.type = "CrossPoint"
  /\ i >= Len(points) - 1
  /\ pc' = "return"
  /\ UNCHANGED <<cross, heap, p1, p2, o1, o2, nbGenes, points, s, i, p, a, b>>

\* ----------------------------------------------------------- CrossUniformF

\* Lines 60-64.
UniformInit ==
  /\ pc = "call"
  /\ cross.type = "CrossUniformF"
  /\ nbGenes' = Len(Genome(p1))
  /\ heap' = Alloc(heap, Len(Genome(p1)))
  /\ o1' = Offspring(heap, 1)
  /\ o2' = Offspring(heap, 2)
  /\ i' = 0
  /\ pc' = "loop"
  /\ UNCHANGED <<cross, p1, p2, points, s, p, a, b>>

\* Lines 66-71: one gene.  Indexing p2.Genome past its length panics before
\* anything is stored.
UniformGene ==
  /\ pc = "loop"
  /\ cross.type = "CrossUniformF"
  /\ i < nbGenes
  /\ \E pv \in Float64Draws :
       /\ p' = pv
       /\ IF i < Len(Genome(p2))
          THEN LET x == At(Genome(p1), i)
                   y == At(Genome(p2), i)
                   q == RoundF(One - pv, FracBits)
               IN  \E v1 \in Blend(pv, x, q, y), v2 \in Blend(q, x, pv, y) :
                     /\ heap' = [heap EXCEPT ![o1.Genome][i + 1] = v1,
                                             ![o2.Genome][i + 1] = v2]
                     /\ i' = i + 1
                     /\ pc' = pc
          ELSE /\ pc' = "panic"
               /\ UNCHANGED <<heap, i>>
  /\ UNCHANGED <<cross, p1, p2, o1, o2, nbGenes, points, s, a, b>>

\* Line 72.
UniformReturn ==
  /\ pc = "loop"
  /\ cross.type = "CrossUniformF"
  /\ i >= nbGenes
  /\ pc' = "return"
  /\ UNCHANGED <<cross, heap, p1, p2, o1, o2, nbGenes, points, s, i, p, a, b>>

\* ---------------------------------------------------------------- CrossPMX

\* The values rng.Intn(n) can return.
Intn(n) == 0..(n - 1)

\* rng.Intn(n) panics when n <= 0.
IntnPanics(n) == n <= 0

\* Variant of CrossoverPoints without the "+ 1".
CrossoverPointsFromZero(n) == {r : r \in Intn(n - 2)}

\* Line 108: the crossover points rng.Intn(nbGenes-2) + 1 can give.
CrossoverPoints(n) == {r + 1 : r \in Intn(n - 2)}

\* Lines 99-111: allocate the offspring, copy the parents into them and pick
\* the crossover point; rng.Intn panics on a genome shorter than 3.
PMXInit ==
  /\ pc = "call"
  /\ cross.type = "CrossPMX"
  /\ nbGenes' = Len(Genome(p1))
  /\ LET h0 == Alloc(heap, Len(Genome(p1)))
     IN  heap' = [h0 EXCEPT ![Offspring(heap, 1).Genome] = CopyAll(@, Genome(p1)),
                            ![Offspring(heap, 2).Genome] = CopyAll(@, Genome(p2))]
  /\ o1' = Offspring(heap, 1)
  /\ o2' = Offspring(heap, 2)
  /\ i' = 0
  /\ IF IntnPanics(Len(Genome(p1)) - 2)
     THEN pc' = "panic" /\ p' = p
     ELSE pc' = "loop" /\ p' \in CrossoverPoints(Len(Genome(p1)))
  /\ UNCHANGED <<cross, p1, p2, points, s, a, b>>

\* Variant of SwapIn that overwrites g[k] and relocates nothing.
SwapInOverwrite(g, x, k, v) == [g EXCEPT ![k + 1] = v]

\* Variant of SwapIn that relocates g[k] and does not place v.
SwapInUnplaced(g, x, k, v) == [g EXCEPT ![x + 1] = g[k + 1]]

\* Lines 117 and 121, "g[x], g[k] = g[k], v": both right-hand sides are read
\* first, then g[x] and g[k] are assigned in this order.
SwapIn(g, x, k, v) == [[g EXCEPT ![x + 1] = g[k + 1]] EXCEPT ![k + 1] = v]

\* Lines 113-122: one position of the prefix.  An index of -1 from getIndex,
\* or reading p2.Genome past its length, panics at the statement using it.
PMXSwap ==
  /\ pc = "loop"
  /\ cross.type = "CrossPMX"
  /\ i < p
  /\ IF i >= Len(Genome(p2))
     THEN pc' = "panic" /\ UNCHANGED <<heap, a, b, i>>
     ELSE LET v2 == At(Genome(p2), i)
              v1 == At(Genome(p1), i)
              ia == getIndex(v2, Genome(o1))
              h1 == [heap EXCEPT ![o1.Genome] = SwapIn(@, ia, i, v2)]
              ib == getIndex(v1, h1[o2.Genome])
              h2 == [h1 EXCEPT ![o2.Genome] = SwapIn(@, ib, i, v1)]
          IN  /\ a' = ia
              /\ IF ia < 0
                 THEN pc' = "panic" /\ UNCHANGED <<heap, b, i>>
                 ELSE /\ b' = ib
                      /\ IF ib < 0
                         THEN pc' = "panic" /\ heap' = h1 /\ i' = i
                         ELSE pc' = pc /\ heap' = h2 /\ i' = i + 1
  /\ UNCHANGED <<cross, p1, p2, o1, o2, nbGenes, points, s, p>>

\* Line 123.
PMXReturn ==
  /\ pc = "loop"
  /\ cross.type = "CrossPMX"
  /\ i >= p
  /\ pc' = "return"
  /\ UNCHANGED <<cross, heap, p1, p2, o1, o2, nbGenes, points, s, i, p, a, b>>

\* ----------------------------------------------------------- specification

Next ==
  \/ PointInit
  \/ PointSegment
  \/ PointReturn
  \/ UniformInit
  \/ UniformGene
  \/ UniformReturn
  \/ PMXInit
  \/ PMXSwap
  \/ PMXReturn

Spec == Init /\ [][Next]_vars

\* ------------------------------------------------------------- properties

\* Genome contents of the parents and of the offspring.
P1 == Genome(p1)

P2 == Genome(p2)

O1 == Genome(o1)

O2 == Genome(o2)

\* The values of a genome.
Values(g) == {g[k] : k \in 1..Len(g)}

\* No value occurs twice in g.
NoDuplicate(g) == \A x, y \in 1..Len(g) : x # y => g[x] # g[y]

\* g is a permutation of the values of h.
PermutationOf(g, h) == Len(g) = Len(h) /\ NoDuplicate(g) /\ Values(g) = Values(h)

\* The parents are permutations of the same value set.
PermutationParents == NoDuplicate(P1) /\ PermutationOf(P2, P1)

\* C1: when CrossPoint.Apply returns (NbPoints <= genome length, parents of
\* equal length), segment k between the sorted markers is copied p1 -> o1 and
\* p2 -> o2 when k is even, and p2 -> o1 and p1 -> o2 when k is odd.
C1_SegmentsAlternate ==
  (/\ cross.type = "CrossPoint"
   /\ pc = "return"
   /\ cross.NbPoints <= Len(P1)
   /\ Len(P1) = Len(P2))
  => \A k \in 0..(Len(points) - 2) :
       \A j \in (At(points, k) + 1)..At(points, k + 1) :
         IF k % 2 = 0
         THEN O1[j] = P1[j] /\ O2[j] = P2[j]
         ELSE O1[j] = P2[j] /\ O2[j] = P1[j]

\* C2: when CrossPoint.Apply returns on parents of equal length, every position
\* of the offspring is filled, and holds either (p1, p2) or (p2, p1) in (o1, o2).
C2_Complementary ==
  (cross.type = "CrossPoint" /\ pc = "return" /\ Len(P1) = Len(P2))
  => /\ Len(O1) = Len(P1)
     /\ Len(O2) = Len(P1)
     /\ \A j \in 1..Len(P1) :
          /\ O1[j] # Nil
          /\ O2[j] # Nil
          /\ \/ O1[j] = P1[j] /\ O2[j] = P2[j]
             \/ O1[j] = P2[j] /\ O2[j] = P1[j]

\* A CrossPoint call has returned offspring that take one position from the
\* own parent and another from the other parent, the parents differing there.
C2_Witness ==
  /\ cross.type = "CrossPoint"
  /\ pc = "return"
  /\ Len(P1) = Len(P2)
  /\ \E j \in 1..Len(P1) : P1[j] # P2[j] /\ O1[j] = P2[j] /\ O2[j] = P1[j]
  /\ \E j \in 1..Len(P1) : P1[j] # P2[j] /\ O1[j] = P1[j] /\ O2[j] = P2[j]

\* C3: in CrossPMX.Apply on parents that are permutations of one value set,
\* both offspring are permutations of that set after every iteration of the
\* swap loop and at the return.
C3_OffspringPermutations ==
  (cross.type = "CrossPMX" /\ pc \in {"loop", "return"} /\ PermutationParents)
  => PermutationOf(O1, P1) /\ PermutationOf(O2, P1)

\* A CrossPMX call is inside its loop after a swap that moved a gene of each
\* offspring.
C3_Witness ==
  /\ cross.type = "CrossPMX"
  /\ pc = "loop"
  /\ PermutationParents
  /\ i >= 1
  /\ i < p
  /\ a > i - 1
  /\ b > i - 1
  /\ O1 # P1
  /\ O2 # P2

\* C4: in CrossPMX.Apply on parents that are permutations of one value set,
\* the positions below i hold the other parent's values and stay so (every
\* looked-up index is at or after the position being placed); at the return
\* i = p, so the prefix [0, p) of each offspring is the other parent's prefix.
C4_PrefixFromOtherParent ==
  (cross.type = "CrossPMX" /\ pc \in {"loop", "return"} /\ PermutationParents)
  => /\ \A k \in 1..i : O1[k] = P2[k] /\ O2[k] = P1[k]
     /\ i >= 1 => a >= i - 1 /\ b >= i - 1
     /\ pc = "return" => i = p

\* A CrossPMX call has returned with a crossover point of at least 2, the
\* parents differing on the whole prefix.
C4_Witness ==
  /\ cross.type = "CrossPMX"
  /\ pc = "return"
  /\ PermutationParents
  /\ p >= 2
  /\ \A k \in 1..p : P1[k] # P2[k]
  /\ a > i - 1

\* C5: a CrossPoint call with NbPoints greater than the genome length returns
\* no offspring.
C5_TooManyPointsRejected ==
  (cross.type = "CrossPoint" /\ cross.NbPoints > Len(P1)) => pc # "return"

\* C6: no strategy returns offspring for parents of different genome lengths.
C6_LengthMismatchRejected ==
  Len(P1) # Len(P2) => pc # "return"

\* C7: once CrossPMX.Apply has chosen its crossover point the genome has at
\* least 3 genes and 0 < p < nbGenes - 1; on a genome shorter than 3 the call
\* does not get past the choice and returns nothing.
C7_InteriorPoint ==
  cross.type = "CrossPMX"
  => /\ pc \in {"loop", "return"} =>
          Len(P1) >= 3 /\ nbGenes = Len(P1) /\ 0 < p /\ p < nbGenes - 1
     /\ Len(P1) < 3 => pc \in {"call", "panic"}

\* A CrossPMX call on permutations of exactly 3 genes has returned.
C7_Witness ==
  /\ cross.type = "CrossPMX"
  /\ pc = "return"
  /\ PermutationParents
  /\ Len(P1) = 3
  /\ p = 1

\* C8: in CrossUniformF.Apply on parents of equal length, every offspring gene
\* computed so far lies between the two parents' genes at its position.
C8_WithinParents ==
  (cross.type = "CrossUniformF" /\ pc \in {"loop", "return"} /\ Len(P1) = Len(P2))
  => \A k \in 1..i :
       /\ Min(P1[k], P2[k]) <= O1[k] /\ O1[k] <= Max(P1[k], P2[k])
       /\ Min(P1[k], P2[k]) <= O2[k] /\ O2[k] <= Max(P1[k], P2[k])

\* The inputs are valid for the strategy: parents of equal length and, for
\* CrossPoint, no more points than genes.
ValidInputs ==
  /\ Len(P1) = Len(P2)
  /\ cross.type = "CrossPoint" => cross.NbPoints <= Len(P1)

\* C9: on valid inputs both returned offspring have the parents' genome length.
C9_LengthPreserved ==
  (pc = "return" /\ ValidInputs)
  => Len(O1) = Len(P1) /\ Len(O2) = Len(P1)

\* A CrossUniformF call has returned offspring of two genes.
C9_Witness ==
  /\ cross.type = "CrossUniformF"
  /\ pc = "return"
  /\ ValidInputs
  /\ Len(P1) = 2
  /\ Len(O1) = 2

\* C10: no step changes a parent or its genome, and the offspring genomes, once
\* made, are arrays distinct from both parents' and from each other.
C10_ParentsUntouched ==
  [][/\ p1' = p1
     /\ p2' = p2
     /\ heap'[p1.Genome] = heap[p1.Genome]
     /\ heap'[p2.Genome] = heap[p2.Genome]
     /\ o1'.Genome # 0 =>
          /\ o1'.Genome \notin {p1.Genome, p2.Genome}
          /\ o2'.Genome \notin {p1.Genome, p2.Genome}
          /\ o1'.Genome # o2'.Genome]_vars

\* A CrossPMX call has returned after swaps that made both offspring differ
\* from the parents they were copied from.
C10_Witness ==
  /\ cross.type = "CrossPMX"
  /\ pc = "return"
  /\ PermutationParents
  /\ p >= 2
  /\ O1 # P1
  /\ O2 # P2
====
